---- MODULE Spec2Model ----
(***************************************************************************)
(* A model of the two sprite-sheet tools of orions-chase:                  *)
(*   assets/create-sprint-sheet.py  (directory mode)                       *)
(*   assets/sprite-test.py          (synthetic mode)                       *)
(* File names are sequences of one-character strings, compared by code     *)
(* point as Python compares str.  Directory-mode images are small rasters  *)
(* with every pixel explicit; a file holds the flattened pixel data and is *)
(* decoded on open.                                                        *)
(***************************************************************************)
EXTENDS Integers, Sequences, FiniteSets, TLC

VARIABLES
    tool,          \* which script the process runs: "dir" or "syn"
    pc,            \* position of the process in the script
    runs,          \* invocations of the script completed so far
    stdout,        \* lines printed so far
    error,         \* the exception that ended the last invocation, "" if none
    dir,           \* args.image_dir: file name -> file
    image_files,   \* load_images: the filtered, sorted file names
    images,        \* the image sequence handed to the compositor
    sprite_sheet,  \* create_sprite_sheet: the canvas
    index,         \* create_sprite_sheet: images pasted so far
    prev_images,   \* history: the inputs of the last create_sprite_sheet that saved
    font_env,      \* the font files that exist on this machine
    font_path,     \* get_font_path's result, "None" when no file exists
    width,         \* create_individual_images: tile width
    height,        \* create_individual_images: tile height
    i,             \* create_individual_images: the loop variable
    font,          \* create_individual_images: the font object
    font_size,     \* create_individual_images: the candidate size
    text_bbox,     \* create_individual_images: the last measured box, <<>> while unassigned
    text_size,     \* create_individual_images: <<text_width, text_height>>
    home_file      \* ~/sprite_sheet.png

\* What only create-sprint-sheet.py touches, and what only sprite-test.py does.
dirVars == <<dir, image_files>>
synVars == <<font_env, font_path, width, height, i, font, font_size, text_bbox,
             text_size, home_file>>

vars == <<tool, pc, runs, stdout, error, images, sprite_sheet, index,
          prev_images, dirVars, synVars>>

\* How many times a script is invoked again after it has ended.
MaxRuns == 2

(***************************************************************************)
(* Strings                                                                 *)
(***************************************************************************)
\* The code point of a character, for the characters the file names use.
Ord(c) ==
    CASE c = "." -> 46
      [] c = "B" -> 66
      [] c = "G" -> 71
      [] c = "N" -> 78
      [] c = "P" -> 80
      [] c = "_" -> 95
      [] c = "a" -> 97
      [] c = "b" -> 98
      [] c = "c" -> 99
      [] c = "e" -> 101
      [] c = "g" -> 103
      [] c = "h" -> 104
      [] c = "i" -> 105
      [] c = "n" -> 110
      [] c = "p" -> 112
      [] c = "r" -> 114
      [] c = "s" -> 115
      [] c = "t" -> 116
      [] c = "x" -> 120

\* Python's s < t on str: the first differing code point decides, a proper
\* prefix is smaller.
RECURSIVE LexLess(_, _)
LexLess(s, t) ==
    IF s = <<>> THEN t # <<>>
    ELSE IF t = <<>> THEN FALSE
    ELSE IF Ord(Head(s)) # Ord(Head(t)) THEN Ord(Head(s)) < Ord(Head(t))
    ELSE LexLess(Tail(s), Tail(t))

RECURSIVE Insert(_, _)
Insert(x, s) ==
    IF s = <<>> THEN <<x>>
    ELSE IF LexLess(x, Head(s)) THEN <<x>> \o s
    ELSE <<Head(s)>> \o Insert(x, Tail(s))

RECURSIVE SortNames(_)
SortNames(s) == IF s = <<>> THEN <<>> ELSE Insert(Head(s), SortNames(Tail(s)))

\* The listing left in the order the file system gave it.
Unsorted(s) == s

\* sorted(...) of load_images.
sorted(s) == SortNames(s)

PngSuffix == <<".", "p", "n", "g">>

\* str.endswith
endswith(f, suffix) ==
    /\ Len(f) >= Len(suffix)
    /\ SubSeq(f, Len(f) - Len(suffix) + 1, Len(f)) = suffix

(***************************************************************************)
(* Pixels, images and files                                                *)
(***************************************************************************)
\* Image.convert on one pixel: RGB <<r, g, b>>, RGBA <<r, g, b, a>>.
ConvertPixel(p, from, to) ==
    IF from = to THEN p
    ELSE IF from = "RGB" /\ to = "RGBA" THEN Append(p, 255)
    ELSE SubSeq(p, 1, 3)

NoImage == [w |-> 0, h |-> 0, mode |-> "", px |-> <<>>]

\* Image.new(mode, (w, h), color)
NewImage(mode, w, h, color) ==
    [w |-> w, h |-> h, mode |-> mode,
     px |-> [y \in 1..h |-> [x \in 1..w |-> color]]]

PngFile(w, h, mode, data) ==
    [kind |-> "png", w |-> w, h |-> h, mode |-> mode, data |-> data]

JunkFile == [kind |-> "junk", w |-> 0, h |-> 0, mode |-> "", data |-> <<>>]

\* Image.save as PNG: the header and the pixel rows one after another.
Encode(im) ==
    PngFile(im.w, im.h, im.mode,
            [k \in 1..(im.w * im.h) |->
                im.px[((k - 1) \div im.w) + 1][((k - 1) % im.w) + 1]])

\* Image.open on a file that identifies as PNG.
Decode(f) ==
    [w |-> f.w, h |-> f.h, mode |-> f.mode,
     px |-> [y \in 1..f.h |-> [x \in 1..f.w |-> f.data[(y - 1) * f.w + x]]]]

Identifies(f) == f.kind = "png"

\* Image.paste(im, (x0, 0)) with no mask: the box (x0, 0, x0 + im.w, im.h),
\* clipped to the canvas, is overwritten by im converted to the canvas mode.
Paste(sheet, im, x0) ==
    [sheet EXCEPT !.px =
        [y \in 1..sheet.h |-> [x \in 1..sheet.w |->
            IF x - x0 >= 1 /\ x - x0 <= im.w /\ y <= im.h
            THEN ConvertPixel(im.px[y][x - x0], im.mode, sheet.mode)
            ELSE sheet.px[y][x]]]]

(***************************************************************************)
(* The directory the directory-mode tool is pointed at                     *)
(***************************************************************************)
NameA == <<"a", ".", "p", "n", "g">>
NameB == <<"b", ".", "p", "n", "g">>
NameUpperB == <<"B", ".", "p", "n", "g">>
NameUpperExt == <<"c", ".", "P", "N", "G">>
NameText == <<"n", ".", "t", "x", "t">>
NameNoDot == <<"a", "p", "n", "g">>
NameBroken == <<"e", ".", "p", "n", "g">>
SheetName == <<"s", "p", "r", "i", "t", "e", "_", "s", "h", "e", "e", "t",
               ".", "p", "n", "g">>

\* The names a directory may hold, in the order the file system lists them
\* (os.listdir promises no order).
Pool == <<NameB, SheetName, NameText, NameA, NameUpperExt, NameBroken,
          NameUpperB, NameNoDot>>

PoolSet == {Pool[k] : k \in 1..Len(Pool)}

\* What each file holds before the tool first runs.
InitialFile(n) ==
    CASE n = NameA ->
           PngFile(2, 2, "RGBA", << <<10, 10, 10, 255>>, <<11, 11, 11, 0>>,
                                   <<12, 12, 12, 128>>, <<13, 13, 13, 255>> >>)
      [] n = NameB ->
           PngFile(2, 2, "RGB", << <<20, 20, 20>>, <<21, 21, 21>>,
                                  <<22, 22, 22>>, <<23, 23, 23>> >>)
      [] n = NameUpperB ->
           PngFile(1, 1, "RGBA", << <<30, 30, 30, 255>> >>)
      [] n = SheetName ->
           PngFile(2, 2, "RGBA", << <<40, 40, 40, 255>>, <<41, 41, 41, 255>>,
                                   <<42, 42, 42, 255>>, <<43, 43, 43, 255>> >>)
      [] n = NameUpperExt ->
           PngFile(2, 2, "RGB", << <<50, 50, 50>>, <<51, 51, 51>>,
                                  <<52, 52, 52>>, <<53, 53, 53>> >>)
      [] OTHER -> JunkFile

\* os.listdir(image_dir)
listdir(d) == SelectSeq(Pool, LAMBDA n : n \in DOMAIN d)

\* os.path.join(image_dir, name) followed by a write of the file.
WriteFile(d, n, f) ==
    [m \in (DOMAIN d) \cup {n} |-> IF m = n THEN f ELSE d[m]]

(***************************************************************************)
(* create-sprint-sheet.py                                                  *)
(***************************************************************************)
\* load_images, line 6: the names kept.
ImageFiles(d) == SelectSeq(sorted(listdir(d)), LAMBDA f : endswith(f, PngSuffix))

\* load_images: list the directory, keep and sort the names, open each.  An
\* entry that does not identify as an image raises out of the comprehension.
Load ==
    /\ tool = "dir" /\ pc = "start"
    /\ image_files' = ImageFiles(dir)
    /\ IF \A k \in 1..Len(image_files') : Identifies(dir[image_files'[k]])
       THEN /\ images' = [k \in 1..Len(image_files') |-> Decode(dir[image_files'[k]])]
            /\ pc' = "loaded"
            /\ error' = ""
       ELSE /\ images' = <<>>
            /\ pc' = "failed"
            /\ error' = "UnidentifiedImageError"
    /\ UNCHANGED <<tool, runs, stdout, sprite_sheet, index, prev_images, dir,
                   synVars>>

\* A test that takes the empty list for a non-empty one.
TruthyAlways(s) == TRUE

\* "if images:" of __main__
Truthy(s) == Len(s) > 0

\* A canvas one tile too wide.
WiderSheet(ims) == <<ims[1].w * (Len(ims) + 1), ims[1].h>>

\* create_sprite_sheet, lines 10-12: the canvas size.
DirSheetSize(ims) == <<ims[1].w * Len(ims), ims[1].h>>

\* create_sprite_sheet, lines 10-14.
DirNewSheet ==
    /\ tool = "dir" /\ pc = "loaded" /\ Truthy(images)
    /\ IF images = <<>>
       THEN /\ pc' = "failed" /\ error' = "IndexError"
            /\ UNCHANGED <<sprite_sheet, index>>
       ELSE /\ sprite_sheet' = NewImage("RGBA", DirSheetSize(images)[1],
                                        DirSheetSize(images)[2], <<0, 0, 0, 0>>)
            /\ index' = 0
            /\ pc' = "paste"
            /\ UNCHANGED error
    /\ UNCHANGED <<tool, runs, stdout, images, prev_images, dirVars, synVars>>

\* An offset counted from one instead of zero.
PasteOffsetNext(ims, k) == (k + 1) * ims[1].w

\* create_sprite_sheet, line 17: index * sprite_width.
DirPasteOffset(ims, k) == k * ims[1].w

\* create_sprite_sheet, lines 16-17: one turn of the loop.
DirPaste ==
    /\ tool = "dir" /\ pc = "paste" /\ index < Len(images)
    /\ sprite_sheet' = Paste(sprite_sheet, images[index + 1],
                             DirPasteOffset(images, index))
    /\ index' = index + 1
    /\ UNCHANGED <<tool, pc, runs, stdout, error, images, prev_images, dirVars,
                   synVars>>

\* Image.save(output_path): the file is replaced by the encoded canvas.
SavedFile(old, im) == Encode(im)

\* create_sprite_sheet, line 19.
DirSave ==
    /\ tool = "dir" /\ pc = "paste" /\ index = Len(images)
    /\ dir' = WriteFile(dir, SheetName,
                        SavedFile(IF SheetName \in DOMAIN dir
                                  THEN dir[SheetName] ELSE JunkFile,
                                  sprite_sheet))
    /\ prev_images' = images
    /\ pc' = "saved"
    /\ UNCHANGED <<tool, runs, stdout, error, images, sprite_sheet, index,
                   image_files, synVars>>

SavedMsg == "Sprite sheet saved as image_dir/sprite_sheet.png"
NoFilesMsg == "No PNG files found in the directory."

\* __main__, line 30.
DirPrintSaved ==
    /\ tool = "dir" /\ pc = "saved"
    /\ stdout' = Append(stdout, SavedMsg)
    /\ pc' = "done"
    /\ UNCHANGED <<tool, runs, error, images, sprite_sheet, index, prev_images,
                   dirVars, synVars>>

\* __main__, lines 31-32.
DirPrintNone ==
    /\ tool = "dir" /\ pc = "loaded" /\ ~Truthy(images)
    /\ stdout' = Append(stdout, NoFilesMsg)
    /\ pc' = "done"
    /\ UNCHANGED <<tool, runs, error, images, sprite_sheet, index, prev_images,
                   dirVars, synVars>>

\* The user invokes the same tool again on the same directory: a new process,
\* the directory as the last one left it.
DirRerun ==
    /\ tool = "dir" /\ pc \in {"done", "failed"} /\ runs + 1 < MaxRuns
    /\ runs' = runs + 1
    /\ pc' = "start"
    /\ error' = ""
    /\ image_files' = <<>>
    /\ images' = <<>>
    /\ sprite_sheet' = NoImage
    /\ index' = 0
    /\ UNCHANGED <<tool, stdout, prev_images, dir, synVars>>

(***************************************************************************)
(* sprite-test.py                                                          *)
(* A synthetic tile is kept as what was drawn on it, a sheet as the tiles  *)
(* pasted on it and where: at 276 x 315 a raster is out of reach, and the  *)
(* claims about these images are about rectangles.                         *)
(***************************************************************************)
\* __main__, lines 63-66 and 71.
MainWidth == 276
MainHeight == 315
MainFontSize == 250
MainCount == 8

\* create_individual_images, line 39.
ShrinkStep == 10

White == <<255, 255, 255>>
Black == <<0, 0, 0>>

\* The (width, height) create_individual_images is called with: __main__'s,
\* and tiles that make the size-fit loop run.
TileSizes == {<<MainWidth, MainHeight>>, <<120, 315>>, <<276, 150>>, <<4, 4>>}

\* get_font_path, lines 5-10.
possible_paths ==
    <<"/Library/Fonts/Arial.ttf",
      "/System/Library/Fonts/Supplemental/Arial.ttf",
      "/usr/share/fonts/truetype/dejavu/DejaVuSans-Bold.ttf",
      "/usr/share/fonts/truetype/freefont/FreeSansBold.ttf">>

PathSet == {possible_paths[k] : k \in 1..Len(possible_paths)}

\* get_font_path, lines 12-18: the first path that exists, else None.
get_font_path(env) ==
    IF \E k \in 1..Len(possible_paths) : possible_paths[k] \in env
    THEN possible_paths[CHOOSE k \in 1..Len(possible_paths) :
            /\ possible_paths[k] \in env
            /\ \A j \in 1..(k - 1) : possible_paths[j] \notin env]
    ELSE "None"

NoFontMsg ==
    "None of the specified font files were found. Using the default PIL font."

\* str(i), one character per decimal digit.
RECURSIVE str(_)
str(n) ==
    LET d == <<"0", "1", "2", "3", "4", "5", "6", "7", "8", "9">>[(n % 10) + 1]
    IN  IF n < 10 THEN <<d>> ELSE Append(str(n \div 10), d)

\* A font file's digit metrics in thousandths of the em: the advance, and per
\* glyph the left bearing, the ink width, the gap above the ink and the ink
\* height.  The digit one is narrower than the others.
Metrics(path) ==
    IF path = "/usr/share/fonts/truetype/dejavu/DejaVuSans-Bold.ttf"
    THEN [adv |-> 696, lsb |-> 50, ink |-> 600, lsb1 |-> 120, ink1 |-> 480,
          top |-> 200, inkh |-> 730]
    ELSE IF path = "/usr/share/fonts/truetype/freefont/FreeSansBold.ttf"
    THEN [adv |-> 556, lsb |-> 35, ink |-> 490, lsb1 |-> 70, ink1 |-> 300,
          top |-> 180, inkh |-> 720]
    ELSE [adv |-> 556, lsb |-> 40, ink |-> 480, lsb1 |-> 110, ink1 |-> 250,
          top |-> 190, inkh |-> 716]

NoFont == [kind |-> "none", path |-> "", size |-> 0]

\* ImageFont.truetype(font_path, font_size)
truetype(path, size) == [kind |-> "truetype", path |-> path, size |-> size]

\* ImageFont.load_default()
load_default == [kind |-> "default", path |-> "", size |-> 0]

\* The pixel size FreeType renders at: a size below one is raised to one by
\* the builds that accept it.
PixelSize(f) == IF f.size < 1 THEN 1 ELSE f.size

CeilDiv(a, b) == (a + b - 1) \div b

\* ImageDraw.textbbox((0, 0), text, font=font): <<left, top, right, bottom>>.
textbbox(text, f) ==
    LET m == Metrics(f.path)
        s == PixelSize(f)
        n == Len(text)
        lsbOf(c) == IF c = "1" THEN m.lsb1 ELSE m.lsb
        inkOf(c) == IF c = "1" THEN m.ink1 ELSE m.ink
    IN  << (s * lsbOf(text[1])) \div 1000,
           (s * m.top) \div 1000,
           CeilDiv(s * (m.adv * (n - 1) + lsbOf(text[n]) + inkOf(text[n])), 1000),
           CeilDiv(s * (m.top + m.inkh), 1000) >>

\* ImageDraw.textsize(text, font=font) with the built-in bitmap font.
textsize(text) == <<6 * Len(text), 11>>

\* A fit test satisfied by one dimension alone.
FitsEither(size, w, h) == size[1] <= w \/ size[2] <= h

\* create_individual_images, line 37.
Fits(size, w, h) == size[1] <= w /\ size[2] <= h

\* A draw position that adds the box origin instead of subtracting it.
CenterKeepBearing(tile, text, off) == (tile - text) \div 2 + off

\* create_individual_images, lines 44-45: the draw position on one axis.
Center(tile, text, off) == (tile - text) \div 2 - off

\* A tile as create_individual_images leaves it: a filled canvas and one text.
Tile(w, h, bg, label, f, at, fill) ==
    [w |-> w, h |-> h, mode |-> "RGB", bg |-> bg, label |-> label, font |-> f,
     at |-> at, fill |-> fill]

\* The box the text's ink occupies on its tile: the measured box moved to the
\* draw position.
InkBox(t) ==
    LET b == textbbox(t.label, t.font)
    IN  <<t.at[1] + b[1], t.at[2] + b[2], t.at[1] + b[3], t.at[2] + b[4]>>

\* __main__, lines 67-71 and get_font_path.
SynStart ==
    /\ tool = "syn" /\ pc = "start"
    /\ font_path' = get_font_path(font_env)
    /\ stdout' = IF font_path' = "None" THEN Append(stdout, NoFontMsg) ELSE stdout
    /\ images' = <<>>
    /\ i' = 1
    /\ pc' = IF MainCount >= 1 THEN "new_image" ELSE "compose"
    /\ UNCHANGED <<tool, runs, error, sprite_sheet, index, prev_images, dirVars,
                   font_env, width, height, font, font_size, text_bbox,
                   text_size, home_file>>

\* create_individual_images, lines 23-32.
SynNewImage ==
    /\ tool = "syn" /\ pc = "new_image"
    /\ IF font_path # "None"
       THEN /\ font_size' = MainFontSize
            /\ font' = truetype(font_path, font_size')
            /\ pc' = "fit"
       ELSE /\ font' = load_default
            /\ pc' = "textsize"
            /\ UNCHANGED font_size
    /\ UNCHANGED <<tool, runs, stdout, error, images, sprite_sheet, index,
                   prev_images, dirVars, font_env, font_path, width, height, i,
                   text_bbox, text_size, home_file>>

\* create_individual_images, lines 34-40: one turn of the size-fit loop.  A
\* size below one is refused by some builds of the library and taken by others.
SynFit ==
    /\ tool = "syn" /\ pc = "fit"
    /\ text_bbox' = textbbox(str(i), font)
    /\ text_size' = <<text_bbox'[3] - text_bbox'[1], text_bbox'[4] - text_bbox'[2]>>
    /\ \/ /\ Fits(text_size', width, height)
          /\ pc' = "center"
          /\ UNCHANGED <<font_size, font, error>>
       \/ /\ ~Fits(text_size', width, height)
          /\ font_size' = font_size - ShrinkStep
          /\ font' = truetype(font_path, font_size')
          /\ UNCHANGED <<pc, error>>
       \/ /\ ~Fits(text_size', width, height)
          /\ font_size' = font_size - ShrinkStep
          /\ font_size' < 1
          /\ pc' = "failed"
          /\ error' = "ValueError"
          /\ UNCHANGED font
    /\ UNCHANGED <<tool, runs, stdout, images, sprite_sheet, index, prev_images,
                   dirVars, font_env, font_path, width, height, i, home_file>>

\* create_individual_images, lines 41-42: the built-in font is measured with
\* textsize, which assigns the size and leaves text_bbox alone.
SynTextSize ==
    /\ tool = "syn" /\ pc = "textsize"
    /\ text_size' = textsize(str(i))
    /\ pc' = "center"
    /\ UNCHANGED <<tool, runs, stdout, error, images, sprite_sheet, index,
                   prev_images, dirVars, font_env, font_path, width, height, i,
                   font, font_size, text_bbox, home_file>>

\* create_individual_images, lines 44-48: text_bbox is read whichever branch
\* ran, and only the size-fit loop assigns it.
SynDraw ==
    /\ tool = "syn" /\ pc = "center"
    /\ IF text_bbox = <<>>
       THEN /\ pc' = "failed"
            /\ error' = "UnboundLocalError"
            /\ UNCHANGED <<images, i>>
       ELSE /\ images' = Append(images,
                  Tile(width, height, White, str(i), font,
                       <<Center(width, text_size[1], text_bbox[1]),
                         Center(height, text_size[2], text_bbox[2])>>, Black))
            /\ i' = i + 1
            /\ pc' = IF i < MainCount THEN "new_image" ELSE "compose"
            /\ UNCHANGED error
    /\ UNCHANGED <<tool, runs, stdout, sprite_sheet, index, prev_images, dirVars,
                   font_env, font_path, width, height, font, font_size,
                   text_bbox, text_size, home_file>>

NoSheet == [w |-> 0, h |-> 0, mode |-> "", bg |-> <<>>, tiles |-> <<>>]

\* create_sprite_sheet, lines 53-54.
SynSheetSize(ims, w, h) == <<Len(ims) * w, h>>

\* create_sprite_sheet, lines 53-55.
SynNewSheet ==
    /\ tool = "syn" /\ pc = "compose"
    /\ sprite_sheet' = [w |-> SynSheetSize(images, width, height)[1],
                        h |-> SynSheetSize(images, width, height)[2],
                        mode |-> "RGB", bg |-> White, tiles |-> <<>>]
    /\ index' = 0
    /\ pc' = "paste"
    /\ UNCHANGED <<tool, runs, stdout, error, images, prev_images, dirVars,
                   synVars>>

\* create_sprite_sheet, line 58: index * width.
SynPasteOffset(k, w) == k * w

\* create_sprite_sheet, lines 57-58: one turn of the loop.
SynPaste ==
    /\ tool = "syn" /\ pc = "paste" /\ index < Len(images)
    /\ sprite_sheet' = [sprite_sheet EXCEPT !.tiles =
           Append(@, [x |-> SynPasteOffset(index, width), y |-> 0,
                      im |-> images[index + 1]])]
    /\ index' = index + 1
    /\ UNCHANGED <<tool, pc, runs, stdout, error, images, prev_images, dirVars,
                   synVars>>

NoFile == [kind |-> "none", w |-> 0, h |-> 0, mode |-> "", bg |-> <<>>,
           data |-> <<>>]

\* A save that adds the canvas to what the file already holds.
SynAppendedFile(old, sheet) ==
    [kind |-> "png", w |-> old.w + sheet.w, h |-> sheet.h, mode |-> sheet.mode,
     bg |-> sheet.bg, data |-> old.data \o sheet.tiles]

\* Image.save(output_path): the file is replaced by the encoded canvas.
SynSavedFile(old, sheet) ==
    [kind |-> "png", w |-> sheet.w, h |-> sheet.h, mode |-> sheet.mode,
     bg |-> sheet.bg, data |-> sheet.tiles]

\* create_sprite_sheet, line 60.
SynSave ==
    /\ tool = "syn" /\ pc = "paste" /\ index = Len(images)
    /\ home_file' = SynSavedFile(home_file, sprite_sheet)
    /\ prev_images' = images
    /\ pc' = "done"
    /\ UNCHANGED <<tool, runs, stdout, error, images, sprite_sheet, index,
                   dirVars, font_env, font_path, width, height, i, font,
                   font_size, text_bbox, text_size>>

\* The user invokes sprite-test.py again: a new process on the same machine.
SynRerun ==
    /\ tool = "syn" /\ pc \in {"done", "failed"} /\ runs + 1 < MaxRuns
    /\ runs' = runs + 1
    /\ pc' = "start"
    /\ error' = ""
    /\ images' = <<>>
    /\ sprite_sheet' = NoSheet
    /\ index' = 0
    /\ font_path' = "None"
    /\ i' = 0
    /\ font' = NoFont
    /\ font_size' = 0
    /\ text_bbox' = <<>>
    /\ text_size' = <<>>
    /\ UNCHANGED <<tool, stdout, prev_images, dirVars, font_env, width, height,
                   home_file>>

(***************************************************************************)
(* The two tools                                                           *)
(***************************************************************************)
DirInit ==
    /\ tool = "dir"
    /\ pc = "start"
    /\ runs = 0
    /\ stdout = <<>>
    /\ error = ""
    /\ \E S \in SUBSET PoolSet : dir = [n \in S |-> InitialFile(n)]
    /\ image_files = <<>>
    /\ images = <<>>
    /\ sprite_sheet = NoImage
    /\ index = 0
    /\ prev_images = <<>>
    /\ font_env = {}
    /\ font_path = "None"
    /\ width = 0
    /\ height = 0
    /\ i = 0
    /\ font = NoFont
    /\ font_size = 0
    /\ text_bbox = <<>>
    /\ text_size = <<>>
    /\ home_file = NoFile

SynInit ==
    /\ tool = "syn"
    /\ pc = "start"
    /\ runs = 0
    /\ stdout = <<>>
    /\ error = ""
    /\ dir = <<>>
    /\ image_files = <<>>
    /\ images = <<>>
    /\ sprite_sheet = NoSheet
    /\ index = 0
    /\ prev_images = <<>>
    /\ font_env \in SUBSET PathSet
    /\ font_path = "None"
    /\ \E t \in TileSizes : width = t[1] /\ height = t[2]
    /\ i = 0
    /\ font = NoFont
    /\ font_size = 0
    /\ text_bbox = <<>>
    /\ text_size = <<>>
    /\ home_file = NoFile

Init == DirInit \/ SynInit

Next ==
    \/ Load
    \/ DirNewSheet
    \/ DirPaste
    \/ DirSave
    \/ DirPrintSaved
    \/ DirPrintNone
    \/ DirRerun
    \/ SynStart
    \/ SynNewImage
    \/ SynFit
    \/ SynTextSize
    \/ SynDraw
    \/ SynNewSheet
    \/ SynPaste
    \/ SynSave
    \/ SynRerun

Spec == Init /\ [][Next]_vars

(***************************************************************************)
(* Properties                                                              *)
(***************************************************************************)
EquallySized(ims) ==
    \A k \in 1..Len(ims) : ims[k].w = ims[1].w /\ ims[k].h = ims[1].h

Composing == pc \in {"paste", "saved", "done"} /\ Len(images) >= 1

\* C1: once create_sprite_sheet has allocated the canvas for a non-empty
\* sequence of N images that all have size (w, h), the canvas, and the file it
\* is saved to, are N*w wide and h high, in both scripts.
C1_SheetDimensions ==
    (Composing /\ EquallySized(images)) =>
        /\ sprite_sheet.w = Len(images) * images[1].w
        /\ sprite_sheet.h = images[1].h
        /\ (tool = "dir" /\ pc \in {"saved", "done"}) =>
              /\ dir[SheetName].w = Len(images) * images[1].w
              /\ dir[SheetName].h = images[1].h
        /\ (tool = "syn" /\ pc = "done") =>
              /\ home_file.w = Len(images) * images[1].w
              /\ home_file.h = images[1].h

C1_Witness ==
    /\ tool = "dir" /\ pc = "done"
    /\ Len(images) = 3 /\ EquallySized(images)
    /\ sprite_sheet.w = 6 /\ sprite_sheet.h = 2

\* The pixel of a canvas of mode RGBA that shows pixel p of a source image:
\* the same colour, the source's alpha or full opacity when it has none.
ShowsPixel(q, p) ==
    /\ Len(q) = 4
    /\ \A c \in 1..3 : q[c] = p[c]
    /\ q[4] = IF Len(p) = 4 THEN p[4] ELSE 255

\* C2: with equally sized inputs of width w, after k images are pasted the
\* slice [j*w, (j+1)*w) of the canvas holds input image j for every j < k,
\* whatever was pasted after it, and the saved file decodes to the canvas.
\* For the synthetic tool the same is said of the placed tiles: tile j is
\* input image j, lies on slice j, and no later tile meets that slice.
C2_OrderPreserving ==
    (Composing /\ EquallySized(images)) =>
        /\ tool = "dir" =>
              /\ \A k \in 1..index : \A y \in 1..images[1].h : \A x \in 1..images[1].w :
                    ShowsPixel(sprite_sheet.px[y][(k - 1) * images[1].w + x],
                               images[k].px[y][x])
              /\ pc \in {"saved", "done"} => Decode(dir[SheetName]) = sprite_sheet
        /\ tool = "syn" =>
              /\ Len(sprite_sheet.tiles) = index
              /\ \A k \in 1..index :
                    LET t == sprite_sheet.tiles[k]
                        w == images[1].w
                    IN  /\ t.im = images[k]
                        /\ t.x = (k - 1) * w /\ t.y = 0
                        /\ t.x + t.im.w = k * w /\ k * w <= sprite_sheet.w
                        /\ t.im.h = sprite_sheet.h
                        /\ \A j \in (k + 1)..index :
                              LET u == sprite_sheet.tiles[j]
                              IN  u.x >= k * w \/ u.x + u.im.w <= (k - 1) * w
              /\ pc = "done" => home_file.data = sprite_sheet.tiles

C2_Witness ==
    /\ tool = "dir" /\ pc = "done"
    /\ image_files = <<NameA, NameB, SheetName>>
    /\ index = 3

\* Python's s < t said without recursion: at the first place the two differ,
\* s has ended or holds the smaller code point.
LexBefore(s, t) ==
    \E p \in 1..(Len(t)) :
        /\ \A q \in 1..(p - 1) : q <= Len(s) /\ s[q] = t[q]
        /\ \/ p = Len(s) + 1
           \/ p <= Len(s) /\ Ord(s[p]) < Ord(t[p])

HasPngSuffix(n) ==
    /\ Len(n) >= 4
    /\ n[Len(n) - 3] = "." /\ n[Len(n) - 2] = "p"
    /\ n[Len(n) - 1] = "n" /\ n[Len(n)] = "g"

\* C3: when load_images returns, the names it kept are exactly the entries
\* of the directory ending in ".png" (case-sensitive), each once, in
\* ascending lexicographic order, and image k is the picture file k holds.
C3_LoadImages ==
    (tool = "dir" /\ pc \in {"loaded", "paste"}) =>
        /\ {image_files[k] : k \in 1..Len(image_files)}
              = {n \in DOMAIN dir : HasPngSuffix(n)}
        /\ Len(image_files) = Cardinality({n \in DOMAIN dir : HasPngSuffix(n)})
        /\ Len(images) = Len(image_files)
        /\ \A k \in 1..Len(images) : Encode(images[k]) = dir[image_files[k]]
        /\ \A j, k \in 1..Len(image_files) :
              j < k => LexBefore(image_files[j], image_files[k])

C3_Witness ==
    /\ tool = "dir" /\ pc = "loaded"
    /\ image_files = <<NameUpperB, NameA, NameB, SheetName>>
    /\ {NameUpperExt, NameNoDot, NameText} \subseteq DOMAIN dir

\* C4: from a directory with no entry ending in ".png", no step of the tool
\* writes a file, allocates a canvas or fails; the only thing printed is the
\* "no files" line, and the step after load_images prints it and ends the
\* process normally.
C4_NoPngNoOutput ==
    [][(tool = "dir" /\ \A n \in DOMAIN dir : ~HasPngSuffix(n)) =>
          /\ dir' = dir
          /\ sprite_sheet' = sprite_sheet
          /\ pc' \in {"start", "loaded", "done"}
          /\ stdout' = stdout \/ stdout' = Append(stdout, NoFilesMsg)
          /\ pc = "loaded" => pc' = "done" /\ stdout' = Append(stdout, NoFilesMsg)
      ]_vars

C4_Witness ==
    /\ tool = "dir" /\ pc = "done" /\ runs = 0
    /\ stdout = <<NoFilesMsg>>
    /\ DOMAIN dir = {NameUpperExt, NameNoDot, NameText}
    /\ sprite_sheet.w = 0

\* C5: while the size-fit loop runs, and when it has ended, the candidate
\* font size is a positive size.
C5_SizeStaysPositive ==
    (tool = "syn" /\ font_path # "None" /\ pc \in {"fit", "center", "failed"})
        => font_size >= 1

\* The sizes the loop can try: initial, initial - 10, initial - 20, ...
Candidates == {MainFontSize - ShrinkStep * n : n \in 0..MainFontSize}

BoxFits(label, path, size, w, h) ==
    LET b == textbbox(label, truetype(path, size))
    IN  b[3] - b[1] <= w /\ b[4] - b[2] <= h

\* C6: when the size-fit loop has exited, the box measured at the chosen
\* size is no wider and no higher than the tile, the chosen size is one of
\* initial, initial - 10, ..., and at every larger size of that sequence the
\* box does not fit.
C6_FirstFit ==
    (tool = "syn" /\ pc = "center" /\ font_path # "None") =>
        /\ text_size[1] <= width /\ text_size[2] <= height
        /\ font = truetype(font_path, font_size)
        /\ text_bbox = textbbox(str(i), font)
        /\ text_size = <<text_bbox[3] - text_bbox[1], text_bbox[4] - text_bbox[2]>>
        /\ font_size \in Candidates
        /\ \A s \in Candidates :
              s > font_size => ~BoxFits(str(i), font_path, s, width, height)

C6_Witness ==
    /\ tool = "syn" /\ pc = "center"
    /\ width = 120 /\ font_size < MainFontSize /\ font_size >= 1
    /\ i = 8

\* C7: with no font file found, sprite-test.py does not fail.
C7_FallbackCompletes ==
    (tool = "syn" /\ font_path = "None" /\ pc # "start") => pc # "failed"

\* C8: a create_sprite_sheet that saves over the file an earlier
\* create_sprite_sheet wrote from the same image sequence leaves the file as
\* it was.
C8_Idempotent ==
    [][/\ (tool = "syn" /\ pc = "paste" /\ pc' = "done"
             /\ home_file.kind = "png" /\ images = prev_images)
          => home_file' = home_file
       /\ (tool = "dir" /\ pc = "paste" /\ pc' = "saved"
             /\ prev_images # <<>> /\ images = prev_images)
          => dir' = dir
      ]_vars

C8_Witness ==
    /\ tool = "syn" /\ pc = "done" /\ runs = 1
    /\ home_file.kind = "png" /\ Len(home_file.data) = MainCount
    /\ \E k \in 1..Len(images) : images[k].font.size < MainFontSize

\* C9: in a run that follows a run which saved a sheet, the saved file is
\* not among the files load_images keeps.
C9_OwnOutputNeverLoaded ==
    (/\ tool = "dir" /\ pc \in {"loaded", "paste"}
     /\ \E k \in 1..Len(stdout) : stdout[k] = SavedMsg)
        => \A k \in 1..Len(image_files) : image_files[k] # SheetName

Abs(n) == IF n < 0 THEN -n ELSE n

\* C10: with a scalable font, on every tile drawn the ink box of the label
\* (the measured box moved to the draw position) lies inside the tile, its
\* left and top edges are the floors of half the free space, and the margins
\* on opposite sides differ by at most one.
C10_LabelInsideTile ==
    (tool = "syn" /\ font_path # "None") =>
        \A k \in 1..Len(images) :
            LET t == images[k]
                b == InkBox(t)
            IN  /\ 0 <= b[1] /\ b[3] <= t.w
                /\ 0 <= b[2] /\ b[4] <= t.h
                /\ b[1] = (t.w - (b[3] - b[1])) \div 2
                /\ b[2] = (t.h - (b[4] - b[2])) \div 2
                /\ Abs(b[1] - (t.w - b[3])) <= 1
                /\ Abs(b[2] - (t.h - b[4])) <= 1

C10_Witness ==
    /\ tool = "syn" /\ pc = "done" /\ Len(images) = MainCount
    /\ width = 276 /\ height = 150
    /\ images[8].font.size < MainFontSize
    /\ images[8].at[1] >= 1
====
